---- MODULE Spec2Model ----
(***************************************************************************)
(* Bullet / target / score loop of the WebXR target-shooting tutorial      *)
(* (final chapter: src/src/score.tsx holds score.tsx and bullets.tsx,      *)
(* src/unnamed/part_003 the Target component, src/unnamed/part_002 the     *)
(* App with its GsapTicker).                                               *)
(*                                                                         *)
(* Time is performance.now() in milliseconds, advancing in steps of 100.   *)
(* Math.random() is a generator with a state; bullet ids are numbered in   *)
(* the order generateUUID hands them out.                                  *)
(* Lengths are kept in half units, Units(1) = one world unit, so that a    *)
(* distance below 1 is not only the distance 0; at 10 units per second a   *)
(* bullet moves a whole number of half units per clock step.               *)
(* JavaScript is single threaded: a frame (all useFrame callbacks of one   *)
(* render-loop iteration) runs without a timer or an input event in        *)
(* between; inFrame marks that the frame task is running.                  *)
(***************************************************************************)
EXTENDS Integers, Sequences, FiniteSets

\* ------------------------------------------------------------ bounds ----
MaxTicks == 20          \* clock steps of 100 ms the session is followed for
MaxBullets == 2         \* trigger presses that fire during the session
MaxLate == 0            \* clock steps a due setTimeout callback may be late
MaxFireTicks == 3       \* clock steps after which the trigger is left alone

\* --------------------------------------------------- program constants ----
bulletSpeed == 10
bulletTimeToLive == 2
scoreAward == 10
maxDisplayScore == 9999
scoreDigits == 4
shrinkMs == 300
respawnDelayMs == 1000
targetCount == 3

Units(n) == 2 * n

\* forwardVector = new Vector3(0, 0, -1)
forwardVector == [x |-> 0, y |-> 0, z |-> -1]

\* unit quaternions: no rotation, and a half turn about the y axis
identityQuaternion == [x |-> 0, y |-> 0, z |-> 0, w |-> 1]
halfTurnQuaternion == [x |-> 0, y |-> 1, z |-> 0, w |-> 0]

\* world position and orientation of the gun's bullet prototype at a
\* trigger event
GunPoses ==
  { [position |-> [x |-> Units(0), y |-> Units(1), z |-> Units(0)],
     quaternion |-> identityQuaternion],
    [position |-> [x |-> Units(2), y |-> Units(1), z |-> Units(0)],
     quaternion |-> identityQuaternion],
    [position |-> [x |-> Units(0), y |-> Units(1), z |-> Units(0)],
     quaternion |-> halfTurnQuaternion] }

\* Math.random() is a pseudo-random generator with a hidden state: here the
\* state is a number of tenths 0..9, the value returned is state / 10 and
\* every call moves the state on, through all ten values in turn
Seeds == {5, 7}

VARIABLES
  now,         \* performance.now(), ms
  seed,        \* state of the Math.random() generator
  targets,     \* the exported Set<Object3D>, in insertion order
  bullets,     \* useBulletStore: bullets
  nextId,      \* number of ids generateUUID has handed out
  timers,      \* pending setTimeout callbacks, in creation order
  tweens,      \* running gsap tweens on target.scale, in creation order
  score,       \* useScoreStore: score
  scoreText,   \* children of the rendered <Text> of Score
  renderedScore, \* the score of Score's latest render (its effect's deps)
  soundStarts, \* number of scoreSound.play() calls
  inFrame,     \* a render-loop iteration is running
  frameQueue,  \* Bullet useFrame callbacks still to run in this frame
  frameDone,   \* history: ids whose callback has run in this frame, in order
  hitCount,    \* history: number of registered hits
  hitIds,      \* history: ids of the bullets that registered a hit
  hitsSince,   \* history: per target, hits registered since its last respawn
  spawned,     \* history: the timestamp of every bullet added, by id
  expired,     \* history: ids of the bullets whose expiry timer has run
  last         \* history: what the latest step did

vars == <<now, seed, targets, bullets, nextId, timers, tweens, score, scoreText,
          renderedScore, soundStarts,
          inFrame, frameQueue, frameDone, hitCount, hitIds, hitsSince, spawned,
          expired, last>>

\* ------------------------------------------------------- vector math ----
\* Vector3.applyQuaternion
applyQuaternion(v, q) ==
  LET tx == 2 * (q.y * v.z - q.z * v.y)
      ty == 2 * (q.z * v.x - q.x * v.z)
      tz == 2 * (q.x * v.y - q.y * v.x)
  IN [x |-> v.x + q.w * tx + q.y * tz - q.z * ty,
      y |-> v.y + q.w * ty + q.z * tx - q.x * tz,
      z |-> v.z + q.w * tz + q.x * ty - q.y * tx]

bulletPositionSinceStart(b, t) ==
  LET directionVector == applyQuaternion(forwardVector, b.initQuaternion)
      travelled == (Units(bulletSpeed) * t) \div 1000
  IN [x |-> b.initPosition.x + directionVector.x * travelled,
      y |-> b.initPosition.y + directionVector.y * travelled,
      z |-> b.initPosition.z + directionVector.z * travelled]

\* bulletObject.position.addVectors(initPosition, direction * speed * dt / 1000)
bulletPosition(b, t) ==
  LET directionVector == applyQuaternion(forwardVector, b.initQuaternion)
      travelled == (Units(bulletSpeed) * (t - b.timestamp)) \div 1000
  IN [x |-> b.initPosition.x + directionVector.x * travelled,
      y |-> b.initPosition.y + directionVector.y * travelled,
      z |-> b.initPosition.z + directionVector.z * travelled]

\* square of Vector3.distanceTo
distanceToSquared(p, q) ==
  (p.x - q.x) * (p.x - q.x) + (p.y - q.y) * (p.y - q.y)
    + (p.z - q.z) * (p.z - q.z)

withinHitRadiusInclusive(p, q) ==
  distanceToSquared(p, q) <= Units(1) * Units(1)

\* distance < 1
withinHitRadius(p, q) == distanceToSquared(p, q) < Units(1) * Units(1)

\* the state of the generator after one more call of Math.random()
nextSeed(s) == (s + 7) % 10

RECURSIVE seedAfter(_, _)
seedAfter(s, calls) == IF calls = 0 THEN s ELSE seedAfter(nextSeed(s), calls - 1)

\* Math.random() * 10 - 5
randomX(r) == (Units(10) * r) \div 10 - Units(5)

randomZUnnegated(r) == (Units(5) * r) \div 10 - Units(5)

\* -Math.random() * 5 - 5
randomZ(r) == 0 - (Units(5) * r) \div 10 - Units(5)

\* ------------------------------------------------------------ stores ----
addScoreByOne(s) == s + 1

addScoreDown(s) == s - scoreAward

\* addScore: score + 10
addScore(s) == s + scoreAward

\* a callback without a hit scores too
addScoreTimesAtLeastOnce(s, n) ==
  IF n = 0 THEN addScore(s) ELSE s + scoreAward * n

RECURSIVE addScoreTimes(_, _)
addScoreTimes(s, n) == IF n = 0 THEN s ELSE addScoreTimes(addScore(s), n - 1)

\* Array.filter with the predicate bullet.id !== bulletId
RECURSIVE filterOut(_, _)
filterOut(list, bulletId) ==
  IF list = <<>> THEN <<>>
  ELSE IF Head(list).id # bulletId
       THEN <<Head(list)>> \o filterOut(Tail(list), bulletId)
       ELSE filterOut(Tail(list), bulletId)

\* Array.filter with the predicate bullet.id === bulletId
RECURSIVE filterOnly(_, _)
filterOnly(list, bulletId) ==
  IF list = <<>> THEN <<>>
  ELSE IF Head(list).id = bulletId
       THEN <<Head(list)>> \o filterOnly(Tail(list), bulletId)
       ELSE filterOnly(Tail(list), bulletId)

removeBulletKeepsMatch(list, bulletId) == filterOnly(list, bulletId)

\* the filtered list is dropped and the old one kept
removeBulletKeepsList(list, bulletId) == list

\* splice(findIndex(id), 1): an id that is not found takes the last entry out
removeBulletSplice(list, bulletId) ==
  IF bulletId \in { list[i].id : i \in 1..Len(list) }
  THEN filterOut(list, bulletId)
  ELSE SubSeq(list, 1, Len(list) - 1)

\* the list as it was when the bullet was added, without the bullet: the
\* bullets added after it are lost
removeBulletCapturedList(list, bulletId) ==
  SelectSeq(list, LAMBDA bullet : bullet.id < bulletId)

\* removeBullet: bullets.filter((bullet) => bullet.id !== bulletId)
removeBullet(list, bulletId) == filterOut(list, bulletId)

newBulletIndexId(position, quaternion) ==
  [id |-> Len(bullets) + 1, initPosition |-> position,
   initQuaternion |-> quaternion, timestamp |-> now]

\* the bullet addBullet builds
newBullet(position, quaternion) ==
  [id |-> nextId + 1, initPosition |-> position,
   initQuaternion |-> quaternion, timestamp |-> now]

\* Number.toString of a non-negative integer, as a sequence of characters
Digit(d) == CASE d = 0 -> "0" [] d = 1 -> "1" [] d = 2 -> "2" [] d = 3 -> "3"
              [] d = 4 -> "4" [] d = 5 -> "5" [] d = 6 -> "6" [] d = 7 -> "7"
              [] d = 8 -> "8" [] d = 9 -> "9"

RECURSIVE toString(_)
toString(n) ==
  IF n < 10 THEN <<Digit(n)>> ELSE toString(n \div 10) \o <<Digit(n % 10)>>

RECURSIVE padStart(_, _, _)
padStart(s, len, c) == IF Len(s) >= len THEN s ELSE padStart(<<c>> \o s, len, c)

Max(a, b) == IF a > b THEN a ELSE b
Min(a, b) == IF a < b THEN a ELSE b

formatScoreTextUnclamped(s) == padStart(toString(s), scoreDigits, "0")

\* formatScoreText
formatScoreText(s) ==
  LET clampedScore == Max(0, Min(maxDisplayScore, s))
  IN padStart(toString(clampedScore), scoreDigits, "0")

BulletIds(list) == { list[i].id : i \in 1..Len(list) }

Ticks(n) == 100 * n

\* ------------------------------------------------------------ timers ----
ExpiryTimerInMs(bulletId) ==
  [kind |-> "expiry", id |-> bulletId, target |-> 0, hitAt |-> 0,
   due |-> now + bulletTimeToLive]

ExpiryTimerForNextId(bulletId) ==
  [kind |-> "expiry", id |-> bulletId + 1, target |-> 0, hitAt |-> 0,
   due |-> now + bulletTimeToLive * 1000]

ExpiryTimerTwice(bulletId) ==
  [kind |-> "expiry", id |-> bulletId, target |-> 0, hitAt |-> 0,
   due |-> now + bulletTimeToLive * 2000]

\* setTimeout(() => state.removeBullet(newBullet.id), bulletTimeToLive * 1000)
ExpiryTimer(bulletId) ==
  [kind |-> "expiry", id |-> bulletId, target |-> 0, hitAt |-> 0,
   due |-> now + bulletTimeToLive * 1000]

RespawnTimerNoDelay(i, hitAt) ==
  [kind |-> "respawn", id |-> 0, target |-> i, hitAt |-> hitAt, due |-> now]

\* setTimeout(() => { target.visible = true; ... }, 1000) of a shrink's
\* onComplete; hitAt is history: when the tween that set it began
RespawnTimer(i, hitAt) ==
  [kind |-> "respawn", id |-> 0, target |-> i, hitAt |-> hitAt,
   due |-> now + respawnDelayMs]

\* the pending callback the event loop runs next: the earliest due one, the
\* one created first among equals
NextTimer ==
  CHOOSE i \in 1..Len(timers) :
    \A j \in 1..Len(timers) :
      \/ timers[i].due < timers[j].due
      \/ timers[i].due = timers[j].due /\ i <= j

RemoveAt(s, i) == SubSeq(s, 1, i - 1) \o SubSeq(s, i + 1, Len(s))

\* ------------------------------------------------------------- tweens ----
\* gsap.to(target.scale, { duration: 0.3, ... }); start is when it was made
ShrinkTween(i) ==
  [kind |-> "shrink", target |-> i, start |-> now, ends |-> now + shrinkMs]

GrowTween(i) ==
  [kind |-> "grow", target |-> i, start |-> now, ends |-> now + shrinkMs]

\* the end of a shrink: scale 0, then onComplete sets target.visible = false
shrinkCompleteKeepsVisible(tg, i) == [tg EXCEPT ![i].scale = 0]

shrinkCompleteDeletes(tg, i) == RemoveAt(tg, i)

shrinkComplete(tg, i) == [tg EXCEPT ![i].scale = 0, ![i].visible = FALSE]

\* the targets of the tweens of kind k that end at this tick, in order
RECURSIVE endingTweens(_, _)
endingTweens(tw, k) ==
  IF tw = <<>> THEN <<>>
  ELSE IF Head(tw).ends <= now /\ Head(tw).kind = k
       THEN <<Head(tw).target>> \o endingTweens(Tail(tw), k)
       ELSE endingTweens(Tail(tw), k)

\* gsap.ticker.tick(): every tween whose duration has passed ends, in creation
\* order; a shrink ends at scale 0 and runs its onComplete (target.visible =
\* false; setTimeout(respawn, 1000)), a grow ends at scale 1
RECURSIVE gsapTick(_, _, _)
gsapTick(tw, tg, tm) ==
  IF tw = <<>> THEN [tweens |-> <<>>, targets |-> tg, timers |-> tm]
  ELSE LET t == Head(tw) IN
    IF t.ends > now
    THEN LET r == gsapTick(Tail(tw), tg, tm)
         IN [r EXCEPT !.tweens = <<t>> \o r.tweens]
    ELSE IF t.kind = "shrink"
    THEN gsapTick(Tail(tw), shrinkComplete(tg, t.target),
                  Append(tm, RespawnTimer(t.target, t.start)))
    ELSE gsapTick(Tail(tw), [tg EXCEPT ![t.target].scale = 1], tm)

\* ------------------------------------------------------------ targets ----
\* Target's useEffect: position.set(random x, targetIdx * 2 + 1, random z)
targetEffect(targetIdx, s) ==
  LET rx == s
      rz == nextSeed(s) IN
  [position |-> [x |-> randomX(rx), y |-> Units(targetIdx * 2 + 1),
                 z |-> randomZ(rz)],
   visible |-> TRUE, scale |-> 1]

allTargets(tg) == [i \in 1..Len(tg) |-> i]

\* [...targets].filter((target) => target.visible)
visibleTargets(tg) == SelectSeq([i \in 1..Len(tg) |-> i], LAMBDA i : tg[i].visible)

\* the targets of the filtered list the bullet at p is closer than 1 to
hitTargets(tg, p) ==
  SelectSeq(visibleTargets(tg), LAMBDA i : withinHitRadius(tg[i].position, p))

RECURSIVE shrinkTweens(_)
shrinkTweens(hs) ==
  IF hs = <<>> THEN <<>> ELSE <<ShrinkTween(Head(hs))>> \o shrinkTweens(Tail(hs))

Range(s) == { s[i] : i \in 1..Len(s) }

origin == [x |-> 0, y |-> 0, z |-> 0]

\* a bullet at rest at the origin of the scene
noBullet == [id |-> 0, initPosition |-> origin,
             initQuaternion |-> identityQuaternion, timestamp |-> 0]

NoOp == [op |-> "none", id |-> 0, present |-> FALSE, hits |-> <<>>,
         position |-> origin, at |-> 0, bullet |-> noBullet]

\* ------------------------------------------------------------- state ----
Init ==
  /\ now = 0
  /\ seed \in Seeds
  /\ targets = <<>>
  /\ bullets = <<>>
  /\ nextId = 0
  /\ timers = <<>>
  /\ tweens = <<>>
  /\ score = 0
  /\ scoreText = formatScoreText(0)
  /\ renderedScore = 0
  /\ soundStarts = 0
  /\ inFrame = FALSE
  /\ frameQueue = <<>>
  /\ frameDone = <<>>
  /\ hitCount = 0
  /\ hitIds = {}
  /\ hitsSince = [i \in 1..targetCount |-> 0]
  /\ spawned = <<>>
  /\ expired = {}
  /\ last = NoOp

scoreEffectUnguarded(s, starts) == starts + 1

\* Score's effect: if (score > 0) { stop if playing; scoreSound.play() }
scoreEffect(s, starts) == IF s > 0 THEN starts + 1 ELSE starts

\* the effects of App's first commit: those of <Target targetIdx={0..2} />
\* and the effect of Score, which runs at its mount
MountTargets ==
  /\ targets = <<>>
  /\ targets' = [i \in 1..targetCount |->
                   targetEffect(i - 1, seedAfter(seed, 2 * (i - 1)))]
  /\ seed' = seedAfter(seed, 2 * targetCount)
  /\ soundStarts' = scoreEffect(score, soundStarts)
  /\ last' = NoOp
  /\ UNCHANGED <<now, bullets, nextId, timers, tweens, score, scoreText,
                 renderedScore, inFrame, frameQueue, frameDone, hitCount,
                 hitIds, hitsSince, spawned, expired>>

Mounted == Len(targets) = targetCount

\* the clock advances; a due timer callback is at most MaxLate steps late
Tick ==
  /\ Mounted /\ ~inFrame
  /\ now < Ticks(MaxTicks)
  /\ \A i \in 1..Len(timers) : now < timers[i].due + Ticks(MaxLate)
  /\ now' = now + Ticks(1)
  /\ last' = NoOp
  /\ UNCHANGED <<seed, targets, bullets, nextId, timers, tweens, score,
                 scoreText, renderedScore, soundStarts, inFrame, frameQueue,
                 frameDone, hitCount, hitIds, hitsSince, spawned, expired>>

addBulletInFront(list, bullet) == <<bullet>> \o list

\* addBullet: set((state) => ({ bullets: [...state.bullets, newBullet] }))
addBullet(list, bullet) == list \o <<bullet>>

isPressedOrTouched(state) == state # "default"

\* if (state === "pressed")
isPressed(state) == state = "pressed"

\* Gun: the xr-standard-trigger button event handler
Trigger(state, position, quaternion) ==
  /\ Mounted /\ ~inFrame
  /\ IF isPressed(state)
     THEN LET bullet == newBullet(position, quaternion)
          IN /\ nextId < MaxBullets
             /\ bullets' = addBullet(bullets, bullet)
             /\ nextId' = nextId + 1
             /\ timers' = Append(timers, ExpiryTimer(bullet.id))
             /\ spawned' = Append(spawned, now)
             /\ last' = [NoOp EXCEPT !.op = state, !.id = bullet.id,
                                     !.position = position,
                                     !.bullet.initQuaternion = quaternion]
     ELSE /\ last' = [NoOp EXCEPT !.op = state]
          /\ UNCHANGED <<bullets, nextId, timers, spawned>>
  /\ UNCHANGED <<now, seed, targets, tweens, score, scoreText, renderedScore,
                 soundStarts, inFrame, frameQueue, frameDone, hitCount,
                 hitIds, hitsSince, expired>>

\* the setTimeout callback of addBullet: state.removeBullet(newBullet.id)
Expire ==
  /\ ~inFrame /\ timers # <<>>
  /\ LET i == NextTimer
         t == timers[i]
     IN /\ t.kind = "expiry" /\ t.due <= now
        /\ bullets' = removeBullet(bullets, t.id)
        /\ timers' = RemoveAt(timers, i)
        /\ expired' = expired \cup {t.id}
        /\ last' = [NoOp EXCEPT !.op = "expiry", !.id = t.id,
                                !.present = t.id \in BulletIds(bullets)]
  /\ UNCHANGED <<now, seed, targets, nextId, tweens, score, scoreText,
                 renderedScore, soundStarts, inFrame, frameQueue, frameDone,
                 hitCount, hitIds, hitsSince, spawned>>

RespawnStaysHidden ==
  /\ ~inFrame /\ timers # <<>>
  /\ LET i == NextTimer
         t == timers[i]
     IN /\ t.kind = "respawn" /\ t.due <= now
        /\ targets' = [targets EXCEPT
                        ![t.target].position.x = randomX(seed),
                        ![t.target].position.z = randomZ(nextSeed(seed))]
        /\ seed' = seedAfter(seed, 2)
        /\ tweens' = Append(tweens, GrowTween(t.target))
        /\ timers' = RemoveAt(timers, i)
        /\ last' = [NoOp EXCEPT !.op = "respawn", !.id = t.target,
                                !.present = targets[t.target].visible,
                                !.at = t.hitAt]
  /\ UNCHANGED <<now, bullets, nextId, score, scoreText, renderedScore,
                 soundStarts, inFrame, frameQueue, frameDone, hitCount,
                 hitIds, hitsSince, spawned, expired>>

\* the setTimeout callback of the shrink's onComplete: show the target at a
\* new random x and z and scale it back up
Respawn ==
  /\ ~inFrame /\ timers # <<>>
  /\ LET i == NextTimer
         t == timers[i]
     IN /\ t.kind = "respawn" /\ t.due <= now
        /\ targets' = [targets EXCEPT
                        ![t.target].visible = TRUE,
                        ![t.target].position.x = randomX(seed),
                        ![t.target].position.z = randomZ(nextSeed(seed))]
        /\ seed' = seedAfter(seed, 2)
        /\ tweens' = Append(tweens, GrowTween(t.target))
        /\ timers' = RemoveAt(timers, i)
        /\ hitsSince' = IF targets[t.target].visible THEN hitsSince
                        ELSE [hitsSince EXCEPT ![t.target] = 0]
        /\ last' = [NoOp EXCEPT !.op = "respawn", !.id = t.target,
                                !.present = targets[t.target].visible,
                                !.at = t.hitAt]
  /\ UNCHANGED <<now, bullets, nextId, score, scoreText, renderedScore,
                 soundStarts, inFrame, frameQueue, frameDone, hitCount,
                 hitIds, spawned, expired>>

\* every Bullet subscribed twice
frameCallbacksTwice(list) == list \o list

frameCallbacksReversed(list) ==
  [k \in 1..Len(list) |-> list[Len(list) + 1 - k]]

\* Bullets: bullets.map((bulletData) => <Bullet key={bulletData.id} ... />);
\* the useFrame callbacks run in the order the Bullet components mounted,
\* which is the order of the list
frameCallbacks(list) == list

\* a render-loop iteration starts: GsapTicker's useFrame runs first (it
\* subscribed at mount, before any Bullet), then one callback per Bullet
\* that Bullets rendered from the store
FrameBegin ==
  /\ Mounted /\ ~inFrame
  /\ LET r == gsapTick(tweens, targets, timers)
     IN /\ tweens' = r.tweens
        /\ targets' = r.targets
        /\ timers' = r.timers
  /\ inFrame' = TRUE
  /\ frameQueue' = frameCallbacks(bullets)
  /\ frameDone' = <<>>
  /\ last' = [NoOp EXCEPT !.op = "gsapTick",
                          !.hits = endingTweens(tweens, "shrink")]
  /\ UNCHANGED <<now, seed, bullets, nextId, score, scoreText, renderedScore,
                 soundStarts, hitCount, hitIds, hitsSince, spawned, expired>>

\* Bullet's useFrame callback: move, then test the visible targets
BulletFrame ==
  /\ inFrame /\ frameQueue # <<>>
  /\ LET bulletData == Head(frameQueue)
         position == bulletPosition(bulletData, now)
         hits == hitTargets(targets, position)
     IN /\ bullets' = IF hits = <<>> THEN bullets
                      ELSE removeBullet(bullets, bulletData.id)
        /\ tweens' = tweens \o shrinkTweens(hits)
        /\ score' = addScoreTimes(score, Len(hits))
        /\ hitCount' = hitCount + Len(hits)
        /\ hitIds' = IF hits = <<>> THEN hitIds ELSE hitIds \cup {bulletData.id}
        /\ hitsSince' = [i \in 1..targetCount |->
                           IF i \in Range(hits) THEN hitsSince[i] + 1
                           ELSE hitsSince[i]]
        /\ last' = [NoOp EXCEPT !.op = "bulletFrame", !.id = bulletData.id,
                      !.present = bulletData.id \in BulletIds(bullets),
                      !.hits = hits, !.position = position,
                      !.bullet = bulletData]
        /\ frameDone' = Append(frameDone, bulletData.id)
  /\ frameQueue' = Tail(frameQueue)
  /\ UNCHANGED <<now, seed, targets, nextId, timers, scoreText, renderedScore,
                 soundStarts, inFrame, spawned, expired>>

\* the frame task ends and React commits the store changes: Score renders
\* formatScoreText(score) and, when the score is not the one of its latest
\* render, runs its effect; Bullets unmounts the removed Bullet components
FrameEnd ==
  /\ inFrame /\ frameQueue = <<>>
  /\ inFrame' = FALSE
  /\ frameDone' = <<>>
  /\ scoreText' = formatScoreText(score)
  /\ renderedScore' = score
  /\ soundStarts' = IF score # renderedScore
                    THEN scoreEffect(score, soundStarts) ELSE soundStarts
  /\ last' = NoOp
  /\ UNCHANGED <<now, seed, targets, bullets, nextId, timers, tweens, score,
                 frameQueue, hitCount, hitIds, hitsSince, spawned, expired>>

\* the states the trigger's button event reports
ButtonStates == {"pressed", "touched", "default"}

\* the player works the trigger during the first MaxFireTicks clock steps
Fire ==
  /\ now <= Ticks(MaxFireTicks)
  /\ \E s \in ButtonStates, g \in GunPoses :
       Trigger(s, g.position, g.quaternion)

Next ==
  \/ MountTargets
  \/ Tick
  \/ Fire
  \/ Expire
  \/ Respawn
  \/ FrameBegin
  \/ BulletFrame
  \/ FrameEnd

Spec == Init /\ [][Next]_vars

\* ------------------------------------------------------------ claims ----
HitRegistered == last.op = "bulletFrame" /\ last.hits # <<>>

\* C1: between a registered hit on a target and that target's next
\* hidden-to-visible respawn no further hit is registered on it, so each
\* disappearance of a target is worth exactly 10 points.
C1_NoDoubleHit == \A i \in 1..targetCount : hitsSince[i] <= 1

\* C2 (as stated): at the end of the frame callback in which a hit on a
\* target is registered, that target's visible flag is false.
C2_ImmediatelyInvisible ==
  HitRegistered => \A i \in Range(last.hits) : ~targets[i].visible

\* C2 (amended): at the end of the frame callback that registers a hit the
\* target is still visible and a shrink tween of 300 ms runs on it; at the
\* end of the gsap tick that ends that tween its visible flag is false.
C2_InvisibleWhenShrinkEnds ==
  /\ HitRegistered =>
       \A i \in Range(last.hits) :
         /\ targets[i].visible
         /\ \E k \in 1..Len(tweens) :
              tweens[k] = [kind |-> "shrink", target |-> i, start |-> now,
                           ends |-> now + 300]
  /\ last.op = "gsapTick" =>
       \A i \in Range(last.hits) : ~targets[i].visible

C2_Witness == last.op = "gsapTick" /\ last.hits # <<>> /\ score > 0

\* C3: at the end of the frame callback in which a bullet registers a hit no
\* entry with its id is in the bullets list, and none is ever again.
C3_HitBulletAbsent == \A id \in hitIds : id \notin BulletIds(bullets)

C3_Witness == hitIds # {} /\ bullets # <<>> /\ ~HitRegistered

\* C4: the score is 10 times the number of hits registered since the start.
C4_ScoreIsTenPerHit == score = 10 * hitCount

C4_Witness == hitCount >= 2

NoHitIds == (1..nextId) \ hitIds

ExpiryPending(id) ==
  \E k \in 1..Len(timers) : timers[k].kind = "expiry" /\ timers[k].id = id

\* C5 (as stated): at every frame a bullet that registers no hit is in the
\* bullets list when dt < 2000 ms since its spawn and absent when dt >= 2000,
\* whatever the order of the expiry-timer callback and the frame callbacks.
C5_LiveExactlyForTimeToLive ==
  inFrame =>
    \A id \in NoHitIds :
      /\ now - spawned[id] < 2000 => id \in BulletIds(bullets)
      /\ now - spawned[id] >= 2000 => id \notin BulletIds(bullets)

\* C5 (amended): at every frame a bullet that registers no hit is in the
\* bullets list when dt < 2000 ms and, later, for as long as its expiry-timer
\* callback has not run; it is absent at every frame after that callback,
\* which never runs at dt < 2000.
C5_LiveUntilExpiryTimerRuns ==
  inFrame =>
    \A id \in NoHitIds :
      /\ now - spawned[id] < 2000 => id \in BulletIds(bullets)
      /\ id \in BulletIds(bullets) <=> id \notin expired
      /\ id \in expired => now - spawned[id] >= 2000

C5_Witness ==
  /\ inFrame
  /\ \E id \in NoHitIds : now - spawned[id] >= 2000 /\ id \in BulletIds(bullets)
  /\ \E id \in NoHitIds : id \in expired

\* C6: every hit registered in a frame callback is on a target that was
\* visible when the callback ran its hit test; a bullet that is within reach
\* of hidden targets only is not removed and scores nothing.
C6_HiddenTargetNeverHit ==
  [][ (inFrame /\ frameQueue # <<>>) =>
        LET p == bulletPosition(Head(frameQueue), now)
            near == { i \in 1..targetCount :
                        distanceToSquared(targets[i].position, p)
                          < Units(1) * Units(1) }
        IN /\ \A i \in 1..targetCount :
                hitsSince'[i] # hitsSince[i] => targets[i].visible
           /\ (\A i \in near : ~targets[i].visible) =>
                score' = score /\ bullets' = bullets /\ hitCount' = hitCount
    ]_vars

C6_Witness ==
  /\ last.op = "bulletFrame" /\ last.hits = <<>>
  /\ \E k \in 1..Len(bullets) : \E i \in 1..targetCount :
       /\ bullets[k].id = last.id
       /\ ~targets[i].visible
       /\ distanceToSquared(targets[i].position,
                            bulletPosition(bullets[k], now))
            < Units(1) * Units(1)

\* C7: the score is never negative and no step lowers it.
C7_ScoreNeverDecreases == [][ score >= 0 /\ score' >= score ]_vars

C7_Witness == score >= 20 /\ expired # {}

\* C9: removeBullet of an id that is not in the list gives the list back, and
\* removing the same id twice gives what removing it once gives.
C9_RemoveBulletIdempotent ==
  \A id \in 0..(nextId + 1) :
    LET once == removeBullet(bullets, id)
    IN /\ removeBullet(once, id) = once
       /\ id \notin BulletIds(bullets) => once = bullets
       /\ BulletIds(once) = BulletIds(bullets) \ {id}

C9_Witness ==
  last.op = "expiry" /\ ~last.present /\ bullets # <<>>

\* C10: expiry timers are never cancelled; a bullet whose timer has run is
\* not in the list whether or not it had hit; and the expiry callback of a
\* bullet a hit has already removed leaves bullets, score and targets as
\* they were.
C10_ExpiryAfterHitIsNoOp ==
  [][ /\ \A id \in (1..nextId) \ expired : ExpiryPending(id)
      /\ \A id \in expired : id \notin BulletIds(bullets)
      /\ \A id \in expired' \ expired :
           /\ id \notin BulletIds(bullets')
           /\ id \in hitIds =>
                bullets' = bullets /\ score' = score /\ targets' = targets
    ]_vars

C10_Witness ==
  last.op = "expiry" /\ last.id \in hitIds /\ Len(bullets) = 1 /\ score > 0

\* ------------------------------------------- the score and its display ----
MaxScoreHits == 1003    \* hits the score display is followed for

InitScore ==
  /\ hitCount \in 0..MaxScoreHits
  /\ score = scoreAward * hitCount
  /\ scoreText = formatScoreText(score)
  /\ renderedScore = score
  /\ soundStarts = hitCount
  /\ now = 0
  /\ seed \in Seeds
  /\ targets = <<>>
  /\ bullets = <<>>
  /\ nextId = 0
  /\ timers = <<>>
  /\ tweens = <<>>
  /\ inFrame = FALSE
  /\ frameQueue = <<>>
  /\ frameDone = <<>>
  /\ hitIds = {}
  /\ hitsSince = [i \in 1..targetCount |-> 0]
  /\ spawned = <<>>
  /\ expired = {}
  /\ last = NoOp

\* addScore, and the render of Score the store change brings
ScoreHit ==
  /\ hitCount < MaxScoreHits
  /\ score' = addScore(score)
  /\ hitCount' = hitCount + 1
  /\ scoreText' = formatScoreText(score')
  /\ renderedScore' = score'
  /\ soundStarts' = scoreEffect(score', soundStarts)
  /\ last' = [NoOp EXCEPT !.op = "addScore"]
  /\ UNCHANGED <<now, seed, targets, bullets, nextId, timers, tweens, inFrame,
                 frameQueue, frameDone, hitIds, hitsSince, spawned, expired>>

NextScore == ScoreHit

SpecScore == InitScore /\ [][NextScore]_vars

DigitValue(c) == CASE c = "0" -> 0 [] c = "1" -> 1 [] c = "2" -> 2
                   [] c = "3" -> 3 [] c = "4" -> 4 [] c = "5" -> 5
                   [] c = "6" -> 6 [] c = "7" -> 7 [] c = "8" -> 8
                   [] c = "9" -> 9 [] OTHER -> -1

\* C8: the displayed text is 4 digit characters whose decimal value is the
\* score clamped to [0, 9999], also when the raw score is above 9999.
C8_DisplayIsClampedFourDigits ==
  /\ Len(scoreText) = 4
  /\ \A k \in 1..4 : DigitValue(scoreText[k]) >= 0
  /\ DigitValue(scoreText[1]) * 1000 + DigitValue(scoreText[2]) * 100
       + DigitValue(scoreText[3]) * 10 + DigitValue(scoreText[4])
     = (IF score > 9999 THEN 9999 ELSE IF score < 0 THEN 0 ELSE score)

C8_Witness ==
  last.op = "addScore" /\ score > 9999 /\ scoreText = <<"9", "9", "9", "9">>

\* C11 (as stated): the respawn callback that follows a hit registered at T
\* makes the target visible exactly 1000 ms after T.
C11_VisibleOneSecondAfterHit ==
  last.op = "respawn" => now = last.at + 1000

\* C11 (amended): the hit at T starts the 300 ms shrink; the respawn callback
\* set when that shrink ends runs no earlier than 1000 ms after the end of
\* the shrink, so no earlier than T + 1300 ms, and leaves the target visible
\* at an x and a z freshly drawn from Math.random(); a pending respawn
\* callback is never due before T + 1300 ms.
C11_VisibleAfterShrinkAndDelay ==
  /\ \A k \in 1..Len(timers) :
       timers[k].kind = "respawn" => timers[k].due >= timers[k].hitAt + 1300
  /\ last.op = "respawn" =>
       /\ now >= last.at + 1300
       /\ targets[last.id].visible
       /\ \E r \in 0..9 :
            /\ seed = seedAfter(r, 2)
            /\ targets[last.id].position.x = randomX(r)
            /\ targets[last.id].position.z = randomZ(nextSeed(r))

C11_Witness ==
  last.op = "respawn" /\ ~last.present /\ now = last.at + 1300

\* ------------------------------------------------ the loop kept running ----
\* the clock keeps running after the time the session is followed for while
\* a tween or a timer callback is pending; the frame that ends a tween and
\* the callback of a timer are then at most MaxLate steps late
TickPending ==
  /\ Mounted /\ ~inFrame
  /\ now >= Ticks(MaxTicks)
  /\ tweens # <<>> \/ timers # <<>>
  /\ \A i \in 1..Len(timers) : now < timers[i].due + Ticks(MaxLate)
  /\ \A k \in 1..Len(tweens) : now < tweens[k].ends + Ticks(MaxLate)
  /\ now' = now + Ticks(1)
  /\ last' = NoOp
  /\ UNCHANGED <<seed, targets, bullets, nextId, timers, tweens, score,
                 scoreText, renderedScore, soundStarts, inFrame, frameQueue,
                 frameDone, hitCount, hitIds, hitsSince, spawned, expired>>

NextLive == Next \/ TickPending

\* the browser's scheduling: time passes, the render loop keeps calling the
\* useFrame callbacks and runs a frame to its end, and a timer callback that
\* is due runs between two frames
Fairness ==
  /\ SF_vars(Tick)
  /\ SF_vars(TickPending)
  /\ SF_vars(Expire)
  /\ SF_vars(Respawn)
  /\ WF_vars(FrameBegin)
  /\ WF_vars(BulletFrame)
  /\ WF_vars(FrameEnd)

SpecLive == Init /\ [][NextLive]_vars /\ Fairness

HitOn(i) == last.op = "bulletFrame" /\ i \in Range(last.hits)

\* C12: every hit registered on a target is eventually followed by that
\* target being hidden, and a hidden target is eventually visible again: no
\* target stays invisible forever, whatever hits fall into its shrink, its
\* hidden delay or its regrow.
C12_HitTargetComesBack ==
  \A i \in 1..targetCount :
    /\ HitOn(i) ~> (Mounted /\ ~targets[i].visible)
    /\ (Mounted /\ ~targets[i].visible) ~> (Mounted /\ targets[i].visible)

C12_Witness ==
  last.op = "respawn" /\ ~last.present /\ hitCount >= 2 /\ now > Ticks(MaxTicks)

\* C13: every registered target is at x in [-5, 5], z in [-10, -5] and
\* y = targetIdx * 2 + 1, at its mount and after every respawn; a respawn
\* draws a new x and z and leaves y alone.
C13_TargetsWithinBounds ==
  \A i \in 1..Len(targets) :
    /\ targets[i].position.x >= 0 - Units(5)
    /\ targets[i].position.x <= Units(5)
    /\ targets[i].position.z >= 0 - Units(10)
    /\ targets[i].position.z <= 0 - Units(5)
    /\ targets[i].position.y = Units((i - 1) * 2 + 1)

C13_Witness ==
  /\ last.op = "respawn"
  /\ targets[last.id].position.x # targetEffect(last.id - 1, 5).position.x
  /\ targets[last.id].position.x # targetEffect(last.id - 1, 7).position.x
  /\ targets[last.id].position.y = Units(1)

\* C14: once the three Targets are registered the targets set has exactly 3
\* members in every later state: no hit, hide, respawn, fire or expiry adds
\* or removes one, and before the registration the set is empty.
C14_TargetCountConstant ==
  [][ /\ Len(targets) \in {0, targetCount}
      /\ Len(targets) = targetCount => Len(targets') = targetCount ]_vars

C14_Witness ==
  /\ Len(targets) = 3
  /\ last.op = "expiry" /\ hitCount > 0
  /\ \E k \in 1..Len(tweens) : tweens[k].kind = "grow"

\* --------------------------------------------------- a slow rate of fire ----
\* the player works the trigger again only when the bullet fired before is
\* at least bulletTimeToLive old
FireSlow ==
  /\ \A k \in 1..Len(spawned) : now >= spawned[k] + bulletTimeToLive * 1000
  /\ \E s \in ButtonStates, g \in GunPoses :
       Trigger(s, g.position, g.quaternion)

NextRate ==
  \/ MountTargets
  \/ Tick
  \/ FireSlow
  \/ Expire
  \/ Respawn
  \/ FrameBegin
  \/ BulletFrame
  \/ FrameEnd

SpecRate == Init /\ [][NextRate]_vars

\* C15: no two entries of the bullets list have the same id, and the id of
\* a bullet that a hit or its expiry has removed is never in the list again.
C15_IdsUniqueNeverReused ==
  /\ \A k, l \in 1..Len(bullets) : bullets[k].id = bullets[l].id => k = l
  /\ BulletIds(bullets) \cap (hitIds \cup expired) = {}

C15_Witness ==
  /\ last.op = "pressed"
  /\ hitIds \cup expired # {}
  /\ last.id \in BulletIds(bullets)

\* C16: a trigger event with state "pressed" appends exactly one bullet to
\* the list, a trigger event with any other state appends none, and no other
\* step appends one: as many bullets are ever added as "pressed" events
\* were handled.
C16_OneBulletPerPress ==
  [][ /\ (last'.op = "pressed" /\ last' # last) =>
           /\ Len(bullets') = Len(bullets) + 1
           /\ SubSeq(bullets', 1, Len(bullets)) = bullets
           /\ bullets'[Len(bullets')].id = last'.id
           /\ Len(spawned') = Len(spawned) + 1
      /\ last'.op \in ButtonStates \ {"pressed"} =>
           bullets' = bullets /\ spawned' = spawned
      /\ (Len(bullets') > Len(bullets) \/ spawned' # spawned) =>
           last'.op = "pressed" ]_vars

C16_Witness ==
  last.op = "touched" /\ Len(spawned) = 1 /\ Len(bullets) = 1

\* C17: at the end of every frame callback of a bullet its position is
\* initPosition + forward(initQuaternion) * bulletSpeed * dt, dt the time
\* since it was fired; a bullet fired at the origin with the identity
\* orientation is at the origin at dt = 0 and at (0, 0, -5) at dt = 0.5 s.
C17_PositionIsKinematic ==
  /\ bulletPosition(noBullet, 0) = origin
  /\ bulletPosition(noBullet, 500) = [x |-> 0, y |-> 0, z |-> 0 - Units(5)]
  /\ last.op = "bulletFrame" =>
       LET b == last.bullet
           dt == now - b.timestamp
           forwardZ == IF b.initQuaternion = identityQuaternion THEN -1 ELSE 1
       IN /\ last.position.x = b.initPosition.x
          /\ last.position.y = b.initPosition.y
          /\ 1000 * (last.position.z - b.initPosition.z)
               = forwardZ * Units(bulletSpeed) * dt

C17_Witness ==
  /\ last.op = "bulletFrame"
  /\ last.bullet.timestamp = 100 /\ now = 600
  /\ last.bullet.initQuaternion = identityQuaternion
  /\ last.position.z = last.bullet.initPosition.z - Units(5)

QueuedIds == [k \in 1..Len(frameQueue) |-> frameQueue[k].id]

\* C18 (as stated): within one frame every live bullet has been advanced
\* before any bullet's collision test runs and any score update is made: once
\* a Bullet callback has run its test, no bullet is still to be advanced.
C18_AllAdvancedBeforeAnyTest ==
  (inFrame /\ frameDone # <<>>) => frameQueue = <<>>

\* C18 (amended): within one frame the Bullet callbacks run one after the
\* other in the order of the bullets list, each advancing, testing and
\* scoring its own bullet: the bullets whose callback has run are those in
\* front of the ones still queued, the latest callback tested the position
\* it had just computed, and no bullet joins the frame on the way.
C18_PerBulletInListOrder ==
  inFrame =>
    LET ids == frameDone \o QueuedIds
    IN /\ \A k, l \in 1..Len(ids) : k < l => ids[k] < ids[l]
       /\ BulletIds(bullets) \subseteq Range(ids)
       /\ frameDone # <<>> =>
            /\ last.op = "bulletFrame"
            /\ last.id = frameDone[Len(frameDone)]
            /\ last.position = bulletPosition(last.bullet, now)
            /\ last.hits = hitTargets(targets, last.position)
       /\ score = scoreAward * hitCount

C18_Witness ==
  inFrame /\ Len(frameDone) = 1 /\ frameQueue # <<>> /\ HitRegistered

\* the bullets fired in the window of bulletTimeToLive that starts at t
FiredInWindow(t) ==
  { j \in 1..Len(spawned) :
      t <= spawned[j] /\ spawned[j] < t + bulletTimeToLive * 1000 }

\* the largest number of bullets fired in one such window so far
MaxFiredInWindow ==
  IF spawned = <<>> THEN 0
  ELSE CHOOSE n \in 1..Len(spawned) :
         /\ \E j \in 1..Len(spawned) : Cardinality(FiredInWindow(spawned[j])) = n
         /\ \A j \in 1..Len(spawned) : Cardinality(FiredInWindow(spawned[j])) <= n

\* C19 (as stated): the bullets list never holds more entries than the
\* largest number of bullets fired in one window of timeToLive (2000 ms).
C19_AtMostKLive == Len(bullets) <= MaxFiredInWindow

\* C19 (amended): the entries of the bullets list younger than timeToLive
\* are never more than the largest number of bullets fired in one window of
\* timeToLive; every other entry is a bullet whose expiry callback is due
\* and has not run yet.
C19_AtMostKYoung ==
  LET young == { k \in 1..Len(bullets) :
                   now - bullets[k].timestamp < bulletTimeToLive * 1000 }
  IN /\ Cardinality(young) <= MaxFiredInWindow
     /\ \A k \in (1..Len(bullets)) \ young :
          \E i \in 1..Len(timers) :
            /\ timers[i].kind = "expiry" /\ timers[i].id = bullets[k].id
            /\ timers[i].due <= now

C19_Witness ==
  /\ Len(bullets) = 2 /\ MaxFiredInWindow = 1
  /\ now - bullets[1].timestamp >= 2000 /\ bullets[2].timestamp = now

\* four times the square of the distance in world units
SquaredHalfUnits(p, q) ==
  (p.x - q.x) * (p.x - q.x) + (p.y - q.y) * (p.y - q.y)
    + (p.z - q.z) * (p.z - q.z)

\* C20: a Bullet callback registers a hit on exactly the visible targets
\* whose distance to the bullet is strictly below 1; when every visible
\* target is at distance 1 or more the callback registers no hit, leaves the
\* bullets list as it is and leaves the score as it is.
C20_HitIffStrictlyWithinOne ==
  [][ (inFrame /\ frameQueue # <<>>) =>
        LET near == { i \in 1..Len(targets) :
                        /\ targets[i].visible
                        /\ SquaredHalfUnits(targets[i].position,
                                            last'.position) < 4 }
        IN /\ Range(last'.hits) = near
           /\ near = {} =>
                bullets' = bullets /\ score' = score /\ tweens' = tweens
           /\ near # {} =>
                /\ Head(frameQueue).id \notin BulletIds(bullets')
                /\ score' = score + 10 * Cardinality(near) ]_vars

C20_Witness ==
  /\ last.op = "bulletFrame" /\ last.hits = <<>>
  /\ last.id \in BulletIds(bullets)
  /\ \E i \in 1..Len(targets) :
       /\ targets[i].visible
       /\ SquaredHalfUnits(targets[i].position, last.position) = 4

\* C21: no score sound starts while the score is 0, the mount of Score
\* included; the commit that ends a frame starts the sound once when the
\* score is above 0 and is not the score of the latest render, and no other
\* step starts it: between frames every addScore has been followed by a
\* start of the sound, the hits of one frame by one start they share.
C21_SoundOnScoreChange ==
  [][ /\ score' = 0 => soundStarts' = 0
      /\ ~inFrame' =>
           renderedScore' = score' /\ (score' > 0 => soundStarts' >= 1)
      /\ IF inFrame /\ ~inFrame'
         THEN soundStarts' = IF score > 0 /\ score # renderedScore
                             THEN soundStarts + 1 ELSE soundStarts
         ELSE soundStarts' = soundStarts ]_vars

C21_Witness ==
  ~inFrame /\ hitCount = 2 /\ soundStarts = 1 /\ renderedScore = 20

\* C22: every bullet that is in the bullets list is, from some later state
\* on, never in it again, whether a hit or its expiry callback removes it.
C22_BulletEventuallyRemoved ==
  \A id \in 1..MaxBullets :
    (id \in BulletIds(bullets)) ~> [](id \notin BulletIds(bullets))

C22_Witness ==
  /\ last.op = "expiry" /\ last.present
  /\ now > Ticks(MaxTicks)
  /\ hitIds # {} /\ bullets = <<>>

\* C23: the handling of a "pressed" event leaves the bullets list as the
\* list before it followed by one new entry with the position and the
\* orientation the gun gave and the current time as timestamp, and leaves
\* the score and every target as they were.
C23_AddBulletAppends ==
  [][ (last'.op = "pressed" /\ last' # last) =>
        /\ bullets' = Append(bullets,
                             [id |-> last'.id,
                              initPosition |-> last'.position,
                              initQuaternion |-> last'.bullet.initQuaternion,
                              timestamp |-> now])
        /\ last'.id \notin BulletIds(bullets)
        /\ score' = score
        /\ targets' = targets ]_vars

C23_Witness ==
  /\ last.op = "pressed" /\ Len(bullets) = 2
  /\ bullets[1].timestamp < now /\ bullets[2].timestamp = now
  /\ bullets[2].initQuaternion = halfTurnQuaternion
  /\ bullets[1].initQuaternion = identityQuaternion

\* C24: the expiry callback of a bullet leaves every other bullet of the
\* list of that moment in the list, with its data and in the same order,
\* the bullets added after the expiring one included; it takes the expiring
\* bullet out and brings back no bullet that a hit or an expiry removed.
C24_ExpiryRemovesOnlyItsBullet ==
  [][ (last'.op = "expiry" /\ last' # last) =>
        /\ \A k \in 1..Len(bullets) :
             bullets[k].id # last'.id =>
               \E m \in 1..Len(bullets') : bullets'[m] = bullets[k]
        /\ \A m \in 1..Len(bullets') :
             \E k \in 1..Len(bullets) :
               bullets[k] = bullets'[m] /\ bullets[k].id # last'.id
        /\ \A m, n \in 1..Len(bullets') :
             m < n =>
               \E k, l \in 1..Len(bullets) :
                 k < l /\ bullets[k] = bullets'[m] /\ bullets[l] = bullets'[n]
        /\ BulletIds(bullets') \cap (hitIds' \cup expired') = {} ]_vars

C24_Witness ==
  /\ last.op = "expiry" /\ last.present
  /\ Len(bullets) = 1 /\ bullets[1].id > last.id
  /\ bullets[1].timestamp > spawned[last.id]

\* C25: every bullet registers at most one hit: the hits registered are as
\* many as the bullets that registered one and the score is 10 times that
\* number; a callback that registers a hit does so on one target and for a
\* bullet that is in the list when it runs. No position is within 1 unit of
\* two targets, which are 2 units apart in height.
C25_AtMostOneHitPerBullet ==
  /\ hitCount = Cardinality(hitIds)
  /\ score = 10 * Cardinality(hitIds)
  /\ HitRegistered => last.present /\ Len(last.hits) = 1
  /\ \A i, j \in 1..Len(targets) :
       i < j => targets[j].position.y - targets[i].position.y >= Units(2)

C25_Witness ==
  /\ HitRegistered /\ Cardinality(hitIds) = 2
  /\ hitsSince[last.hits[1]] = 2
  /\ inFrame /\ Len(frameDone) = 2

\* C26: in every step that changes the x or the z of a target the target is
\* hidden before the step and visible after it.
C26_MovedOnlyWhenHidden ==
  [][ \A i \in 1..targetCount :
        (/\ Len(targets) = targetCount
         /\ \/ targets'[i].position.x # targets[i].position.x
            \/ targets'[i].position.z # targets[i].position.z)
          => ~targets[i].visible /\ targets'[i].visible ]_vars

\* C27: the handling of a "pressed" event and the expiry callback of a
\* bullet each leave the score and the visible flag and the position of
\* every target as they were; a step that changes the score is a Bullet
\* frame callback that registers a hit.
C27_FireAndExpiryLeaveOutcome ==
  [][ /\ (last'.op \in {"pressed", "expiry"} /\ last' # last) =>
           /\ score' = score
           /\ Len(targets') = Len(targets)
           /\ \A i \in 1..Len(targets) :
                /\ targets'[i].visible = targets[i].visible
                /\ targets'[i].position = targets[i].position
      /\ score' # score =>
           /\ inFrame /\ frameQueue # <<>>
           /\ last'.op = "bulletFrame" /\ last'.hits # <<>> ]_vars

C27_Witness ==
  /\ last.op = "expiry" /\ last.present
  /\ score > 0
  /\ \E i \in 1..Len(targets) : ~targets[i].visible

====
